---- MODULE Spec2Model ----
(***************************************************************************)
(* Maze generator, wall topology and geometric query layer of the maze     *)
(* game (src/src/maze.c, src/include/maze.h) and the collision predicates  *)
(* of the frame loop (src/unnamed/part_001).                               *)
(*                                                                         *)
(* World coordinates are C floats in the source.  Here they are exact      *)
(* fixed-point integers counted in ticks of 0.05 world units (20 ticks =   *)
(* 1.0), which represents wallThick*0.5 = 0.05, the half cell and every    *)
(* cell centre exactly for an even cellSize.  Floating-point rounding is   *)
(* not modelled.                                                           *)
(***************************************************************************)
EXTENDS Integers, Sequences, FiniteSets, TLC

VARIABLES
    pc,          \* where the caller of the maze API is: idle / created / gen / generated / genfailed
    maze,        \* the Maze object (width, height, cellSize, cells, startPos, exitPos)
    lastCreate,  \* arguments, allocator outcomes and return value of the last Maze_Create call
    heap,        \* live heap blocks
    visited,     \* Maze_Generate: visited[]
    stack,       \* Maze_Generate: stack[0 .. stackTop-1]
    pushes,      \* history: how often each cell index was pushed on the stack
    outRects,    \* Maze_GetWallRects: the entries written through outRects, in order
    rectCount,   \* Maze_GetWallRects: the returned count
    maxRects,    \* Maze_GetWallRects: the maxRects argument of the last call
    ret,         \* last Maze_HasWall call: arguments and return value
    cellArg,     \* Maze_CellToWorld: the cell passed in
    world,       \* a world point: the result of Maze_CellToWorld, or any point a caller holds
    cellOut,     \* Maze_WorldToCell: *outCellX, *outCellY
    colIn,       \* CircleRectIntersect: the arguments c, r, rect
    colOut,      \* CircleRectIntersect: the return value
    ps,          \* a ParticleSystem: maxParticles, activeParticles, particles[0 .. activeParticles-1], emitAccumulator
    psLast,      \* history of the last ParticleSystem_Update call
    mvIn,        \* movement resolution: position, step, radius, walls, wallCount
    mvOut,       \* movement resolution: the position written back
    sp,          \* spawn placement: pursuer index i, attempts, retry
    scaryChars,  \* positions of the pursuers placed so far, scaryChars[0 .. i-1]
    placedBy,    \* history: "constrained" if the first loop chose the pursuer's cell, else "degraded"
    walls,       \* main: the WallRect buffer (null, or the rectangles written)
    wallCount,   \* main: the count Maze_GetWallRects returned
    playerPos,   \* main: the player's x and z
    gameState,   \* main: "PLAYING", "WON" or "GAMEOVER"
    torches,     \* main: torches and particleSystems pointers, torchCount
    gameTimer,   \* main: the session timer, in frames
    fr,          \* history of the current frame and of the last InitGame call
    twin         \* a second Maze_Generate run on a grid of the same size: cells, visited, stack

mazeVars == <<maze, lastCreate, heap, visited, stack, pushes, outRects, rectCount, maxRects, ret, twin>>
mapVars == <<cellArg, world, cellOut>>
colVars == <<colIn, colOut>>
partVars == <<ps, psLast>>
moveVars == <<mvIn, mvOut>>
spawnVars == <<sp, scaryChars, placedBy>>
gameVars == <<walls, wallCount, playerPos, gameState, torches, gameTimer, fr>>
genVars == <<lastCreate, heap, visited, stack, pushes, outRects, rectCount, maxRects, ret, twin>>
otherVars == <<partVars, moveVars, spawnVars, gameVars>>
vars == <<pc, mazeVars, mapVars, colVars, otherVars>>

(***************************************************************************)
(* Bounds of the model                                                     *)
(***************************************************************************)
MaxW == 3
MaxH == 2

(***************************************************************************)
(* Program constants                                                       *)
(***************************************************************************)
MAZE_NORTH == 1
MAZE_EAST  == 2
MAZE_SOUTH == 4
MAZE_WEST  == 8
MAZE_ALL   == 15
CELL_SIZE  == 60      \* 3.0f
wallThick  == 2       \* 0.1f

Directions == {MAZE_NORTH, MAZE_EAST, MAZE_SOUTH, MAZE_WEST}

(***************************************************************************)
(* Bit operations on the 4-bit wall mask                                   *)
(***************************************************************************)
RECURSIVE BitAnd(_, _)
BitAnd(a, b) ==
    IF a = 0 \/ b = 0 THEN 0
    ELSE (a % 2) * (b % 2) + 2 * BitAnd(a \div 2, b \div 2)

\* cells[idx] &= ~dir, on an unsigned char holding a 4-bit mask
AndNot(mask, dir) == mask - BitAnd(mask, dir)

\* (int) cast of a quotient num/den with den > 0: truncation toward zero
TruncDivFloor(num, den) == num \div den
TruncDiv(num, den) ==
    IF num >= 0 THEN num \div den ELSE -((-num) \div den)

\* part_001: static inline float clampf(float v, float lo, float hi)
clampf(v, lo, hi) == IF v < lo THEN lo ELSE IF v > hi THEN hi ELSE v

(***************************************************************************)
(* maze.c helpers                                                          *)
(***************************************************************************)
CellIndexNoColumnCheck(m, x, y) ==
    IF y * m.width + x < 0 \/ y * m.width + x >= m.width * m.height THEN -1
    ELSE y * m.width + x
CellIndex(m, x, y) ==
    IF x < 0 \/ x >= m.width \/ y < 0 \/ y >= m.height THEN -1
    ELSE y * m.width + x

IsValidUnvisited(m, x, y, vis) ==
    LET idx == CellIndex(m, x, y)
    IN  IF idx < 0 THEN FALSE ELSE ~vis[idx]

\* the parallel arrays dirs[], dx[], dy[] as one array of triples
DirTable ==
    << [dir |-> MAZE_NORTH, dx |-> 0,  dy |-> -1],
       [dir |-> MAZE_EAST,  dx |-> 1,  dy |-> 0],
       [dir |-> MAZE_SOUTH, dx |-> 0,  dy |-> 1],
       [dir |-> MAZE_WEST,  dx |-> -1, dy |-> 0] >>

oppositeDirSame == << MAZE_NORTH, MAZE_EAST, MAZE_SOUTH, MAZE_WEST >>
oppositeDirRotated == << MAZE_EAST, MAZE_SOUTH, MAZE_WEST, MAZE_NORTH >>
oppositeDir == << MAZE_SOUTH, MAZE_WEST, MAZE_NORTH, MAZE_EAST >>

\* swap the C indices i and j (0-based) of a 4-element array
Swap(arr, i, j) ==
    [k \in 1..4 |-> IF k = i + 1 THEN arr[j + 1]
                    ELSE IF k = j + 1 THEN arr[i + 1]
                    ELSE arr[k]]

\* for (i = 3; i > 0; i--) { j = rand() % (i + 1); swap(i, j); }
\* j3, j2, j1 are the three values of rand() % (i + 1)
Shuffle(j3, j2, j1) == Swap(Swap(Swap(DirTable, 3, j3), 2, j2), 1, j1)

\* the scan for (i = 0; i < 4; i++) over the shuffled arrays
RECURSIVE ScanNeighbors(_, _, _, _, _, _)
ScanNeighbors(m, x, y, vis, arr, i) ==
    IF i > 4 THEN [found |-> 0, dir |-> 0]
    ELSE IF IsValidUnvisited(m, x + arr[i].dx, y + arr[i].dy, vis)
         THEN [found |-> 1, dir |-> arr[i].dir]
         ELSE ScanNeighbors(m, x, y, vis, arr, i + 1)

GetRandomNeighbor(m, x, y, vis, j3, j2, j1) ==
    ScanNeighbors(m, x, y, vis, Shuffle(j3, j2, j1), 1)

(***************************************************************************)
(* Maze_Create / Maze_Destroy                                              *)
(***************************************************************************)
NoMaze ==
    [width |-> 0, height |-> 0, cellSize |-> 0, cells |-> <<>>,
     startPos |-> <<0, 0>>, exitPos |-> <<0, 0>>]

NoCall == [width |-> 0, height |-> 0, cellSize |-> 0,
           mallocOk |-> TRUE, callocOk |-> TRUE, ret |-> "none"]

NoRet == [x |-> 0, y |-> 0, direction |-> 0, value |-> FALSE, called |-> FALSE]

NewMaze(width, height, cellSize) ==
    [width |-> width, height |-> height, cellSize |-> cellSize,
     cells |-> [i \in 0..(width * height - 1) |-> MAZE_ALL],
     startPos |-> <<0, 0>>, exitPos |-> <<width - 1, height - 1>>]

WidthArgs == -1..MaxW
HeightArgs == -1..MaxH
CellSizeArgs == {-CELL_SIZE, 0, CELL_SIZE}

\* if (width < 1 || height < 1 || cellSize <= 0.0f) return NULL;
CreateArgsInvalidZeroSize(width, height, cellSize) ==
    width < 1 \/ height < 1 \/ cellSize < 0
CreateArgsInvalid(width, height, cellSize) ==
    width < 1 \/ height < 1 \/ cellSize <= 0

Maze_Create(width, height, cellSize, mallocOk, callocOk) ==
    /\ pc = "idle"
    /\ LET ok == ~CreateArgsInvalid(width, height, cellSize) /\ mallocOk /\ callocOk
       IN  /\ lastCreate' = [width |-> width, height |-> height, cellSize |-> cellSize,
                             mallocOk |-> mallocOk, callocOk |-> callocOk,
                             ret |-> IF ok THEN "maze" ELSE "NULL"]
           /\ IF ok
              THEN /\ maze' = NewMaze(width, height, cellSize)
                   /\ heap' = heap \cup {"maze", "cells"}
                   /\ pc' = "created"
              ELSE \* invalid arguments, or malloc failed, or calloc failed and the
                   \* Maze block was freed again
                   /\ UNCHANGED <<maze, heap, pc>>
    /\ UNCHANGED <<visited, stack, pushes, outRects, rectCount, maxRects, ret, twin, mapVars, colVars, otherVars>>

Maze_Destroy ==
    /\ pc \in {"created", "generated", "genfailed"}
    /\ pc' = "idle"
    /\ maze' = NoMaze
    /\ heap' = heap \ {"maze", "cells"}
    /\ pushes' = <<>>
    /\ outRects' = <<>>
    /\ rectCount' = 0
    /\ maxRects' = 0
    /\ ret' = NoRet
    /\ UNCHANGED <<lastCreate, visited, stack, twin, mapVars, colVars, otherVars>>

(***************************************************************************)
(* Maze_Generate                                                           *)
(***************************************************************************)
\* visited = calloc(width * height); visited[CellIndex(maze, 0, 0)] = true;
InitVisitedNoStart(m) ==
    [i \in 0..(m.width * m.height - 1) |-> FALSE]
InitVisited(m) ==
    [i \in 0..(m.width * m.height - 1) |-> i = CellIndex(m, 0, 0)]

\* lines 88-113: the scratch allocations and the push of (0, 0)
Maze_GenerateBegin(visitedOk, stackOk) ==
    /\ pc = "created"
    /\ IF visitedOk /\ stackOk
       THEN /\ visited' = InitVisited(maze)
            /\ stack' = << [x |-> 0, y |-> 0] >>
            /\ pushes' = [i \in 0..(maze.width * maze.height - 1) |->
                              IF i = CellIndex(maze, 0, 0) THEN 1 ELSE 0]
            /\ heap' = heap \cup {"visited", "stack"}
            /\ pc' = "gen"
       ELSE \* calloc of visited failed, or malloc of stack failed and visited
            \* was freed: return with the maze untouched
            /\ pc' = "genfailed"
            /\ UNCHANGED <<visited, stack, pushes, heap>>
    /\ ret' = NoRet
    /\ UNCHANGED <<maze, lastCreate, outRects, rectCount, maxRects, twin, mapVars, colVars, otherVars>>

\* index of dir in dirs[] (the unshuffled table of Maze_Generate), 0-based
DirIdx(dir) ==
    IF DirTable[1].dir = dir THEN 0
    ELSE IF DirTable[2].dir = dir THEN 1
    ELSE IF DirTable[3].dir = dir THEN 2
    ELSE IF DirTable[4].dir = dir THEN 3
    ELSE 0

\* visited[nextIdx] = true;
MarkVisitedNever(vis, idx) == vis
MarkVisited(vis, idx) == [vis EXCEPT ![idx] = TRUE]

\* One iteration of while (stackTop > 0) on the maze m, the visited array vis
\* and the stack stk (stackTop is Len(stk)).  currIdx and nextIdx are the
\* indices used on cells[] and visited[] (-1: none used in this iteration).
GenerateIteration(m, vis, stk, j3, j2, j1) ==
    LET x == stk[Len(stk)].x
        y == stk[Len(stk)].y
        nb == GetRandomNeighbor(m, x, y, vis, j3, j2, j1)
    IN  IF nb.found = 1
        THEN LET dirIdx == DirIdx(nb.dir)
                 nx == x + DirTable[dirIdx + 1].dx
                 ny == y + DirTable[dirIdx + 1].dy
                 currIdx == CellIndex(m, x, y)
                 nextIdx == CellIndex(m, nx, ny)
                 cells1 == [m.cells EXCEPT ![currIdx] = AndNot(@, nb.dir)]
                 cells2 == [cells1 EXCEPT ![nextIdx] = AndNot(@, oppositeDir[dirIdx + 1])]
             IN  [cells |-> cells2,
                  visited |-> MarkVisited(vis, nextIdx),
                  stack |-> Append(stk, [x |-> nx, y |-> ny]),
                  currIdx |-> currIdx, nextIdx |-> nextIdx]
        ELSE [cells |-> m.cells, visited |-> vis,
              stack |-> SubSeq(stk, 1, Len(stk) - 1),
              currIdx |-> -1, nextIdx |-> -1]

Maze_GenerateStep(j3, j2, j1) ==
    /\ pc = "gen"
    /\ Len(stack) > 0
    /\ \E it \in {GenerateIteration(maze, visited, stack, j3, j2, j1)} :
          /\ maze' = [maze EXCEPT !.cells = it.cells]
          /\ visited' = it.visited
          /\ stack' = it.stack
          /\ pushes' = IF it.nextIdx >= 0 THEN [pushes EXCEPT ![it.nextIdx] = @ + 1]
                       ELSE pushes
    /\ UNCHANGED <<pc, lastCreate, heap, outRects, rectCount, maxRects, ret, twin, mapVars, colVars, otherVars>>

\* loop exit: free(stack); free(visited); return
Maze_GenerateEnd ==
    /\ pc = "gen"
    /\ Len(stack) = 0
    /\ pc' = "generated"
    /\ heap' = heap \ {"visited", "stack"}
    /\ visited' = <<>>
    /\ UNCHANGED <<maze, lastCreate, stack, pushes, outRects, rectCount, maxRects, ret, twin, mapVars, colVars, otherVars>>

(***************************************************************************)
(* Two Maze_Generate runs on fresh grids of one size, fed the same rand()  *)
(* outputs: the k-th iteration of either run draws the same three values.  *)
(* The second run lives in twin.  What the heap blocks held before they    *)
(* were handed out differs from run to run.                                *)
(***************************************************************************)
NoTwin == [cells |-> <<>>, visited |-> <<>>, stack |-> <<>>]

\* previous contents of a block of n bytes: all zero, or all non-zero
HeapBlocks(n) == { [i \in 0..(n - 1) |-> b] : b \in BOOLEAN }

\* calloc returns the block zero-filled
callocUninit(block) == block
calloc(block) == [i \in DOMAIN block |-> FALSE]

\* visited = calloc(width * height, sizeof(bool)) on the block handed out,
\* then visited[CellIndex(maze, startX, startY)] = true
VisitedIn(m, block) ==
    [i \in DOMAIN InitVisited(m) |-> calloc(block)[i] \/ InitVisited(m)[i]]

\* the Maze the second run works on
TwinMaze == [maze EXCEPT !.cells = twin.cells]

\* lines 88-113 of both runs, every allocation succeeding
TwinBegin(blockA, blockB) ==
    /\ pc = "twin_created"
    /\ visited' = VisitedIn(maze, blockA)
    /\ stack' = << [x |-> 0, y |-> 0] >>
    /\ twin' = [cells |-> twin.cells, visited |-> VisitedIn(TwinMaze, blockB),
                stack |-> << [x |-> 0, y |-> 0] >>]
    /\ heap' = heap \cup {"visited", "stack"}
    /\ pc' = "twin_gen"
    /\ UNCHANGED <<maze, lastCreate, pushes, outRects, rectCount, maxRects, ret, mapVars, colVars, otherVars>>

\* the next loop iteration of each run that is still in its loop
TwinStep(j3, j2, j1) ==
    /\ pc = "twin_gen"
    /\ Len(stack) > 0 \/ Len(twin.stack) > 0
    /\ IF Len(stack) > 0
       THEN \E it \in {GenerateIteration(maze, visited, stack, j3, j2, j1)} :
               /\ maze' = [maze EXCEPT !.cells = it.cells]
               /\ visited' = it.visited
               /\ stack' = it.stack
       ELSE UNCHANGED <<maze, visited, stack>>
    /\ IF Len(twin.stack) > 0
       THEN \E it \in {GenerateIteration(TwinMaze, twin.visited, twin.stack, j3, j2, j1)} :
               twin' = [cells |-> it.cells, visited |-> it.visited, stack |-> it.stack]
       ELSE UNCHANGED twin
    /\ UNCHANGED <<pc, lastCreate, heap, pushes, outRects, rectCount, maxRects, ret, mapVars, colVars, otherVars>>

\* both loops have ended: free(stack); free(visited); return
TwinEnd ==
    /\ pc = "twin_gen"
    /\ Len(stack) = 0
    /\ Len(twin.stack) = 0
    /\ pc' = "twin_done"
    /\ heap' = heap \ {"visited", "stack"}
    /\ visited' = <<>>
    /\ twin' = [twin EXCEPT !.visited = <<>>]
    /\ UNCHANGED <<maze, lastCreate, stack, pushes, outRects, rectCount, maxRects, ret, mapVars, colVars, otherVars>>

(***************************************************************************)
(* Maze_HasWall                                                            *)
(***************************************************************************)
Maze_HasWallOpenOutside(m, x, y, direction) ==
    LET idx == CellIndex(m, x, y)
    IN  IF idx < 0 THEN FALSE
        ELSE BitAnd(m.cells[idx], direction) # 0
Maze_HasWall(m, x, y, direction) ==
    LET idx == CellIndex(m, x, y)
    IN  IF idx < 0 THEN TRUE
        ELSE BitAnd(m.cells[idx], direction) # 0

\* the Maze_HasWall call of a caller, on any maze that exists and is not
\* inside Maze_Generate
CallHasWall(x, y, direction) ==
    /\ pc \in {"created", "generated", "genfailed"}
    /\ ret' = [x |-> x, y |-> y, direction |-> direction,
               value |-> Maze_HasWall(maze, x, y, direction), called |-> TRUE]
    /\ UNCHANGED <<pc, maze, lastCreate, heap, visited, stack, pushes, outRects, rectCount, maxRects, twin, mapVars, colVars, otherVars>>

(***************************************************************************)
(* Maze_GetWallRects                                                       *)
(***************************************************************************)
Rectangle(x, y, width, height) == [x |-> x, y |-> y, width |-> width, height |-> height]

\* (c - n * 0.5f + 0.5f) * cellSize
CellCenterIntHalf(c, n, cellSize) == ((2 * (c - n \div 2) + 1) * cellSize) \div 2
CellCenter(c, n, cellSize) == ((2 * c - n + 1) * cellSize) \div 2

\* the conditions of the four ifs of the loop body
EmitNorth(m, x, y) == Maze_HasWall(m, x, y, MAZE_NORTH)
EmitWest(m, x, y) == Maze_HasWall(m, x, y, MAZE_WEST)
EmitEastAnyColumn(m, x, y) == Maze_HasWall(m, x, y, MAZE_EAST)
EmitEast(m, x, y) == x = m.width - 1 /\ Maze_HasWall(m, x, y, MAZE_EAST)
EmitSouth(m, x, y) == y = m.height - 1 /\ Maze_HasWall(m, x, y, MAZE_SOUTH)

\* The entries written for cell (x, y), in the order of the four ifs.  The field
\* side is not part of WallRect: it records which if wrote the entry.
CellWallRects(m, x, y) ==
    LET cellCenterX == CellCenter(x, m.width, m.cellSize)
        cellCenterZ == CellCenter(y, m.height, m.cellSize)
        halfCell == m.cellSize \div 2
        halfThick == wallThick \div 2
        north == IF EmitNorth(m, x, y)
                 THEN << [rect |-> Rectangle(cellCenterX - halfCell - halfThick,
                                             cellCenterZ - halfCell - halfThick,
                                             m.cellSize + wallThick, wallThick),
                          isVertical |-> FALSE, side |-> MAZE_NORTH] >>
                 ELSE << >>
        west ==  IF EmitWest(m, x, y)
                 THEN << [rect |-> Rectangle(cellCenterX - halfCell - halfThick,
                                             cellCenterZ - halfCell - halfThick,
                                             wallThick, m.cellSize + wallThick),
                          isVertical |-> TRUE, side |-> MAZE_WEST] >>
                 ELSE << >>
        east ==  IF EmitEast(m, x, y)
                 THEN << [rect |-> Rectangle(cellCenterX + halfCell - halfThick,
                                             cellCenterZ - halfCell - halfThick,
                                             wallThick, m.cellSize + wallThick),
                          isVertical |-> TRUE, side |-> MAZE_EAST] >>
                 ELSE << >>
        south == IF EmitSouth(m, x, y)
                 THEN << [rect |-> Rectangle(cellCenterX - halfCell - halfThick,
                                             cellCenterZ + halfCell - halfThick,
                                             m.cellSize + wallThick, wallThick),
                          isVertical |-> FALSE, side |-> MAZE_SOUTH] >>
                 ELSE << >>
    IN  north \o west \o east \o south

\* for (x = 0; x < width && count < maxRects; x++): count is Len(acc)
RECURSIVE WallRectsRow(_, _, _, _, _)
WallRectsRow(m, maxR, y, x, acc) ==
    IF x < m.width /\ Len(acc) < maxR
    THEN WallRectsRow(m, maxR, y, x + 1, acc \o CellWallRects(m, x, y))
    ELSE acc

\* for (y = 0; y < height && count < maxRects; y++)
RECURSIVE WallRectsRows(_, _, _, _)
WallRectsRows(m, maxR, y, acc) ==
    IF y < m.height /\ Len(acc) < maxR
    THEN WallRectsRows(m, maxR, y + 1, WallRectsRow(m, maxR, y, 0, acc))
    ELSE acc

\* every write through outRects, in order; the returned count is its length
WallRectWrites(m, maxR) ==
    IF maxR <= 0 THEN << >> ELSE WallRectsRows(m, maxR, 0, << >>)

\* InitGame sizes the buffer as width * height * 4; smaller buffers are the
\* other callers the signature allows
MaxRectsArgs(m) == {0, 2, m.width * m.height * 4}

\* called by InitGame, after Maze_Generate has returned
Maze_GetWallRects(maxR) ==
    /\ pc \in {"generated", "genfailed"}
    /\ maxRects' = maxR
    /\ outRects' = WallRectWrites(maze, maxR)
    /\ rectCount' = Len(WallRectWrites(maze, maxR))
    /\ ret' = NoRet
    /\ UNCHANGED <<pc, maze, lastCreate, heap, visited, stack, pushes, twin, mapVars, colVars, otherVars>>

(***************************************************************************)
(* Maze_CellToWorld / Maze_WorldToCell                                     *)
(***************************************************************************)
\* (cellX - width * 0.5f + 0.5f) * cellSize, and the same for cellY
Maze_CellToWorld(m, cellX, cellY) ==
    [x |-> CellCenter(cellX, m.width, m.cellSize),
     z |-> CellCenter(cellY, m.height, m.cellSize)]

\* (int)(w / cellSize + n * 0.5f) = (int)((2 * w + n * cellSize) / (2 * cellSize))
WorldToCellAxisClamped(w, n, cellSize) ==
    clampf(TruncDiv(2 * w + n * cellSize, 2 * cellSize), 0, n - 1)
WorldToCellAxis(w, n, cellSize) == TruncDiv(2 * w + n * cellSize, 2 * cellSize)

Maze_WorldToCell(m, worldX, worldZ) ==
    [x |-> WorldToCellAxis(worldX, m.width, m.cellSize),
     y |-> WorldToCellAxis(worldZ, m.height, m.cellSize)]

NoCell == [x |-> 0, y |-> 0]
NoWorld == [x |-> 0, z |-> 0]

\* cell sizes of the mazes the mapping is applied to: 1.0 and CELL_SIZE
MapCellSizes == {20, CELL_SIZE}

\* world points a caller may hold: a quarter-cell lattice that reaches two
\* cells beyond every edge of the grid
WorldArgs(n, cellSize) ==
    { k * (cellSize \div 4) : k \in (-2 * n - 8)..(2 * n + 8) }

CallCellToWorld(cellX, cellY) ==
    /\ pc = "created"
    /\ cellArg' = [x |-> cellX, y |-> cellY]
    /\ world' = Maze_CellToWorld(maze, cellX, cellY)
    /\ pc' = "world_of_cell"
    /\ UNCHANGED <<mazeVars, cellOut, colVars, otherVars>>

\* the caller holds some other world point (a player or pursuer position)
HoldWorld(worldX, worldZ) ==
    /\ pc = "created"
    /\ world' = [x |-> worldX, z |-> worldZ]
    /\ pc' = "world_any"
    /\ UNCHANGED <<mazeVars, cellArg, cellOut, colVars, otherVars>>

CallWorldToCell ==
    /\ pc \in {"world_of_cell", "world_any"}
    /\ cellOut' = Maze_WorldToCell(maze, world.x, world.z)
    /\ pc' = IF pc = "world_of_cell" THEN "cell_of_center" ELSE "cell_of_any"
    /\ UNCHANGED <<mazeVars, cellArg, world, colVars, otherVars>>

(***************************************************************************)
(* clampf / CircleRectIntersect                                            *)
(***************************************************************************)
CircleRectIntersectStrict(c, r, rect) ==
    LET nx == clampf(c.x, rect.x, rect.x + rect.width)
        nz == clampf(c.y, rect.y, rect.y + rect.height)
        dx == c.x - nx
        dz == c.y - nz
    IN  (dx * dx + dz * dz) < r * r
CircleRectIntersect(c, r, rect) ==
    LET nx == clampf(c.x, rect.x, rect.x + rect.width)
        nz == clampf(c.y, rect.y, rect.y + rect.height)
        dx == c.x - nx
        dz == c.y - nz
    IN  (dx * dx + dz * dz) <= r * r

\* circle centres are drawn from -MaxCoord..MaxCoord on both axes
MaxCoord == 9

\* radii: 0.25, PLAYER_RADIUS = 0.30 and SCARY_CHAR_RADIUS = 0.35
RadiusArgs == {5, 6, 7}

\* a wall-shaped rectangle (wallThick wide) and a square one
RectArgs == { Rectangle(-1, -3, wallThick, 6), Rectangle(-2, -2, 4, 4) }

NoCol == [c |-> [x |-> 0, y |-> 0], r |-> 0, rect |-> Rectangle(0, 0, 0, 0)]

CallCircleRectIntersect ==
    /\ pc = "col_args"
    /\ colOut' = CircleRectIntersect(colIn.c, colIn.r, colIn.rect)
    /\ pc' = "col_done"
    /\ UNCHANGED <<mazeVars, mapVars, colIn, otherVars>>

(***************************************************************************)
(* ParticleSystem_Create / ParticleSystem_Destroy / ParticleSystem_Update  *)
(*                                                                         *)
(* Time is counted in ticks of 0.1 s and emitAccumulator in half           *)
(* particles, so that emitRate * dt = 15 * 0.1 = 1.5 particles per tick is *)
(* exact.  Of a Particle only life is kept: position, velocity, maxLife,   *)
(* size and color never decide whether a particle is emitted or removed.   *)
(***************************************************************************)
emitRate == 15        \* 15.0f particles per second
particleLife == 10    \* p->life = 1.0f

\* capacities of the pools created: 0 .. MaxParticles
MaxParticles == 3
\* the largest frame time passed to an update, in ticks
MaxDt == 3

\* emitRate * dt in half particles, for dt in ticks of 0.1 s
EmitIncrement(dt) == (emitRate * dt * 2) \div 10

NoPS == [null |-> TRUE, maxParticles |-> 0, activeParticles |-> 0,
         particles |-> <<>>, emitAccumulator |-> 0]

NoUpdate == [called |-> FALSE, dt |-> 0, accBefore |-> 0, activeBefore |-> 0,
             toEmit |-> 0, emitted |-> 0, removed |-> 0, maxWrite |-> -1,
             updated |-> <<>>]

ParticleSystem_Create(maxP, psOk, particlesOk) ==
    /\ pc = "particles"
    /\ ps.null
    /\ ps' = IF psOk /\ particlesOk
             THEN [null |-> FALSE, maxParticles |-> maxP, activeParticles |-> 0,
                   particles |-> <<>>, emitAccumulator |-> 0]
             ELSE NoPS
    /\ psLast' = NoUpdate
    /\ UNCHANGED <<pc, mazeVars, mapVars, colVars, moveVars, spawnVars, gameVars>>

ParticleSystem_Destroy ==
    /\ pc = "particles"
    /\ ~ps.null
    /\ ps' = NoPS
    /\ psLast' = NoUpdate
    /\ UNCHANGED <<pc, mazeVars, mapVars, colVars, moveVars, spawnVars, gameVars>>

\* int toEmit = (int)ps->emitAccumulator;
ToEmit(acc) == TruncDiv(acc, 2)

\* ps->emitAccumulator -= (float)toEmit;  room is maxParticles - activeParticles
EmitAccumulatorClamped(acc, toEmit, room) ==
    acc - 2 * (IF toEmit < room THEN toEmit ELSE room)
EmitAccumulatorAfter(acc, toEmit, room) == acc - 2 * toEmit

\* the condition of the emission loop
EmitGuardNoCapacity(i, toEmit, active, maxP) == i < toEmit
EmitGuard(i, toEmit, active, maxP) == i < toEmit /\ active < maxP

\* for (i = 0; i < toEmit && activeParticles < maxParticles; i++): the new
\* particle is written to particles[activeParticles]
RECURSIVE EmitLoop(_, _, _, _)
EmitLoop(parts, i, toEmit, maxP) ==
    IF EmitGuard(i, toEmit, Len(parts), maxP)
    THEN EmitLoop(Append(parts, [life |-> particleLife]), i + 1, toEmit, maxP)
    ELSE parts

\* if (p->life <= 0.0f)
IsDeadStrict(life) == life < 0
IsDead(life) == life <= 0

\* i--; followed by the i++ of the loop header
IndexAfterRemovalSkips(i) == i + 1
IndexAfterRemoval(i) == i

\* for (i = 0; i < activeParticles; i++): index i is 0-based, parts holds the
\* slots 0 .. activeParticles-1.  A dead particle is overwritten by the last
\* active one and i is not advanced.  Each particle carries the slot it had
\* when the loop began (field slot, not part of Particle); log lists, in
\* order, the particles the body of the loop has been applied to.
RECURSIVE UpdateLoop(_, _, _, _)
UpdateLoop(parts, i, dt, log) ==
    IF i < Len(parts)
    THEN LET p == [parts[i + 1] EXCEPT !.life = @ - dt]
             written == [parts EXCEPT ![i + 1] = p]
             log1 == Append(log, p.slot)
         IN  IF IsDead(p.life)
             THEN UpdateLoop(SubSeq([written EXCEPT ![i + 1] = written[Len(written)]],
                                    1, Len(written) - 1), IndexAfterRemoval(i), dt, log1)
             ELSE UpdateLoop(written, i + 1, dt, log1)
    ELSE [parts |-> parts, log |-> log]

\* the particles with the slot each one holds before the update loop
WithSlots(parts) == [k \in 1..Len(parts) |-> [life |-> parts[k].life, slot |-> k - 1]]
WithoutSlots(parts) == [k \in 1..Len(parts) |-> [life |-> parts[k].life]]

ParticleSystem_Update(dt) ==
    /\ pc = "particles"
    /\ IF ps.null
       THEN UNCHANGED <<ps, psLast>>
       ELSE LET acc1 == ps.emitAccumulator + EmitIncrement(dt)
                toEmit == ToEmit(acc1)
                acc2 == EmitAccumulatorAfter(acc1, toEmit, ps.maxParticles - ps.activeParticles)
                emitted == EmitLoop(ps.particles, 0, toEmit, ps.maxParticles)
                loop == UpdateLoop(WithSlots(emitted), 0, dt, <<>>)
                updated == WithoutSlots(loop.parts)
            IN  /\ ps' = [ps EXCEPT !.emitAccumulator = acc2,
                                    !.particles = updated,
                                    !.activeParticles = Len(updated)]
                /\ psLast' = [called |-> TRUE, dt |-> dt,
                              accBefore |-> ps.emitAccumulator,
                              activeBefore |-> ps.activeParticles,
                              toEmit |-> toEmit,
                              emitted |-> Len(emitted) - ps.activeParticles,
                              removed |-> Len(emitted) - Len(updated),
                              \* the highest slot written: emission writes the slots
                              \* activeBefore .. Len(emitted)-1, the update loop the
                              \* slots below Len(emitted)
                              maxWrite |-> Len(emitted) - 1,
                              updated |-> loop.log]
    /\ UNCHANGED <<pc, mazeVars, mapVars, colVars, moveVars, spawnVars, gameVars>>

(***************************************************************************)
(* CircleCircleIntersect / CollidesAny / movement resolution               *)
(***************************************************************************)
PLAYER_RADIUS == 6        \* 0.30f
SCARY_CHAR_RADIUS == 7    \* 0.35f

CircleCircleIntersectStrict(c1, r1, c2, r2) ==
    LET dx == c1.x - c2.x
        dz == c1.y - c2.y
        distSq == dx * dx + dz * dz
        radiusSum == r1 + r2
    IN  distSq < radiusSum * radiusSum
CircleCircleIntersect(c1, r1, c2, r2) ==
    LET dx == c1.x - c2.x
        dz == c1.y - c2.y
        distSq == dx * dx + dz * dz
        radiusSum == r1 + r2
    IN  distSq <= radiusSum * radiusSum

\* wallArr is the WallRect array walls, count the number of entries scanned
CollidesAnyFirstOnly(c, r, wallArr, count) ==
    count >= 1 /\ CircleRectIntersect(c, r, wallArr[1].rect)
CollidesAny(c, r, wallArr, count) ==
    \E i \in 1..count : CircleRectIntersect(c, r, wallArr[i].rect)

Vector2(x, y) == [x |-> x, y |-> y]

\* the two tests are made on the whole displacement at once
MoveXZTogether(pXZ, step, r, wallArr, count) ==
    LET test == Vector2(pXZ.x + step.x, pXZ.y + step.y)
    IN  IF ~CollidesAny(test, r, wallArr, count) THEN test ELSE pXZ
\* testX, then testZ from the position testX left
MoveXZ(pXZ, step, r, wallArr, count) ==
    LET testX == Vector2(pXZ.x + step.x, pXZ.y)
        p1 == IF ~CollidesAny(testX, r, wallArr, count) THEN Vector2(testX.x, pXZ.y) ELSE pXZ
        testZ == Vector2(p1.x, p1.y + step.y)
    IN  IF ~CollidesAny(testZ, r, wallArr, count) THEN Vector2(p1.x, testZ.y) ELSE p1

\* positions are 0.5 * i and displacements 1.0 * j for i, j in -MoveRange..MoveRange
MoveRange == 1
MovePositions == { Vector2(10 * i, 10 * j) : i, j \in -MoveRange..MoveRange }
MoveSteps == { Vector2(20 * i, 20 * j) : i, j \in -MoveRange..MoveRange }

\* a wall spanning x in [0.5, 1.5], z in [-1, 1] and a wall-thick one north of it
MoveRects == { Rectangle(10, -20, 20, 40), Rectangle(-30, 16, 60, wallThick) }
MoveWalls ==
    {<<>>} \cup { <<[rect |-> a, isVertical |-> FALSE]>> : a \in MoveRects }
           \cup { <<[rect |-> a, isVertical |-> FALSE], [rect |-> b, isVertical |-> FALSE]>> :
                    a, b \in MoveRects }

NoMove == [pos |-> Vector2(0, 0), step |-> Vector2(0, 0), r |-> 0, walls |-> <<>>, wallCount |-> 0]

\* the player's step of one frame
MovePlayer ==
    /\ pc = "move_args"
    /\ mvIn.r = PLAYER_RADIUS
    /\ mvOut' = MoveXZ(mvIn.pos, mvIn.step, PLAYER_RADIUS, mvIn.walls, mvIn.wallCount)
    /\ pc' = "move_done"
    /\ UNCHANGED <<mazeVars, mapVars, colVars, partVars, mvIn, spawnVars, gameVars>>

\* one pursuer's step of one frame
MoveScaryChar ==
    /\ pc = "move_args"
    /\ mvIn.r = SCARY_CHAR_RADIUS
    /\ mvOut' = MoveXZ(mvIn.pos, mvIn.step, SCARY_CHAR_RADIUS, mvIn.walls, mvIn.wallCount)
    /\ pc' = "move_done"
    /\ UNCHANGED <<mazeVars, mapVars, colVars, partVars, mvIn, spawnVars, gameVars>>

(***************************************************************************)
(* InitGame: placement of the scary characters                             *)
(***************************************************************************)
SCARY_CHAR_COUNT == 3
MIN_DISTANCE_FROM_PLAYER == 600    \* 30.0f
RELAXED_DISTANCE == 500            \* 25.0f
SPAWN_ATTEMPTS == 200              \* while (!validPos && attempts < 200)
SPAWN_RETRIES == 50                \* for (retry = 0; retry < 50; retry++)

\* the maze the placement runs on is SpawnW x SpawnH cells of CELL_SIZE
SpawnW == 12
SpawnH == 1

\* A maze Maze_Generate can leave: the depth-first search that always finds
\* the next cell of the boustrophedon path (row 0 eastwards, row 1 westwards,
\* ...) first never backtracks before the last cell.
SerpentineMaze(width, height, cellSize) ==
    LET link(y) == IF y % 2 = 0 THEN width - 1 ELSE 0
        mask(x, y) ==
            (IF y > 0 /\ x = link(y - 1) THEN 0 ELSE MAZE_NORTH)
          + (IF x < width - 1 THEN 0 ELSE MAZE_EAST)
          + (IF y < height - 1 /\ x = link(y) THEN 0 ELSE MAZE_SOUTH)
          + (IF x > 0 THEN 0 ELSE MAZE_WEST)
    IN  [NewMaze(width, height, cellSize) EXCEPT
            !.cells = [i \in 0..(width * height - 1) |-> mask(i % width, i \div width)]]

\* distFromPlayer >= d, for the centre of (cellX, cellY) and the start centre
IsFarEnough(m, cellX, cellY, d) ==
    LET playerStartWorld == Maze_CellToWorld(m, m.startPos[1], m.startPos[2])
        charWorldPos == Maze_CellToWorld(m, cellX, cellY)
        dx == charWorldPos.x - playerStartWorld.x
        dz == charWorldPos.z - playerStartWorld.z
    IN  dx * dx + dz * dz >= d * d

\* the inner loop over the pursuers placed before
IsDuplicate(m, cellX, cellY, chars) ==
    \E j \in 1..Len(chars) :
        LET existing == Maze_WorldToCell(m, chars[j].x, chars[j].z)
        IN  cellX = existing.x /\ cellY = existing.y

\* if (!isStart && !isExit && !isDuplicate && isFarEnough)
SpawnValidAllowDuplicate(m, cellX, cellY, chars) ==
    LET isStart == cellX = m.startPos[1] /\ cellY = m.startPos[2]
        isExit == cellX = m.exitPos[1] /\ cellY = m.exitPos[2]
    IN  ~isStart /\ ~isExit
        /\ IsFarEnough(m, cellX, cellY, MIN_DISTANCE_FROM_PLAYER)
SpawnValid(m, cellX, cellY, chars) ==
    LET isStart == cellX = m.startPos[1] /\ cellY = m.startPos[2]
        isExit == cellX = m.exitPos[1] /\ cellY = m.exitPos[2]
    IN  ~isStart /\ ~isExit /\ ~IsDuplicate(m, cellX, cellY, chars)
        /\ IsFarEnough(m, cellX, cellY, MIN_DISTANCE_FROM_PLAYER)

NoSpawn == [i |-> 0, attempts |-> 0, retry |-> 0]

\* scaryChars[i].position = centre of (cellX, cellY); next pursuer
SpawnPlace(cellX, cellY, by) ==
    /\ scaryChars' = Append(scaryChars, Maze_CellToWorld(maze, cellX, cellY))
    /\ placedBy' = Append(placedBy, by)
    /\ sp' = [i |-> sp.i + 1, attempts |-> 0, retry |-> 0]
    /\ pc' = IF sp.i + 1 = SCARY_CHAR_COUNT THEN "spawned" ELSE "spawn"

\* one iteration of while (!validPos && attempts < 200); cellX and cellY are
\* the values of rand() % width and rand() % height
SpawnConstrainedPick(cellX, cellY) ==
    /\ pc = "spawn"
    /\ sp.attempts < SPAWN_ATTEMPTS
    /\ IF SpawnValid(maze, cellX, cellY, scaryChars)
       THEN SpawnPlace(cellX, cellY, "constrained")
       ELSE /\ sp' = [sp EXCEPT !.attempts = sp.attempts + 1]
            /\ UNCHANGED <<pc, scaryChars, placedBy>>
    /\ UNCHANGED <<mazeVars, mapVars, colVars, partVars, moveVars, gameVars>>

\* retry < 50
RetryLeftAlways(retry) == TRUE
RetryLeft(retry) == retry < SPAWN_RETRIES

\* one iteration of for (retry = 0; retry < 50; retry++)
SpawnRelaxedPick(cellX, cellY) ==
    /\ pc = "spawn"
    /\ sp.attempts = SPAWN_ATTEMPTS
    /\ RetryLeft(sp.retry)
    /\ IF IsFarEnough(maze, cellX, cellY, RELAXED_DISTANCE)
       THEN SpawnPlace(cellX, cellY, "degraded")
       ELSE /\ sp' = [sp EXCEPT !.retry = sp.retry + 1]
            /\ UNCHANGED <<pc, scaryChars, placedBy>>
    /\ UNCHANGED <<mazeVars, mapVars, colVars, partVars, moveVars, gameVars>>

\* if (!validPos) { cellX = rand() % width; cellY = rand() % height; }
SpawnFallbackPick(cellX, cellY) ==
    /\ pc = "spawn"
    /\ sp.attempts = SPAWN_ATTEMPTS
    /\ ~RetryLeft(sp.retry)
    /\ SpawnPlace(cellX, cellY, "degraded")
    /\ UNCHANGED <<mazeVars, mapVars, colVars, partVars, moveVars, gameVars>>

(***************************************************************************)
(* main: InitGame and the frame loop                                       *)
(*                                                                         *)
(* The game maze is a corridor of GameW cells (MAZE_WIDTH x MAZE_HEIGHT is *)
(* 15 x 15 in the program).  Positions and displacements are multiples of  *)
(* half a cell.                                                            *)
(***************************************************************************)
GameW == 2
\* the session timer is followed for MaxTimer frames
MaxTimer == 2

GAME_STATE_PLAYING == "PLAYING"
GAME_STATE_WON == "WON"
GAME_STATE_GAMEOVER == "GAMEOVER"

NullWalls == [null |-> TRUE, rects |-> <<>>]
NoTorches == [null |-> TRUE, particleSystemsNull |-> TRUE, torchCount |-> 0]

\* ScaryCharacter scaryChars[SCARY_CHAR_COUNT] = {0};
ZeroChar == [x |-> 0, z |-> 0, speed |-> 0, radius |-> 0]

NoSession == [taken |-> FALSE]

NoFrame == [init |-> "none", before |-> NoSession, stateAtUpdate |-> "none",
            charsAtUpdate |-> <<>>, i |-> 0, order |-> <<>>, capturedBy |-> -1,
            done |-> FALSE]

\* everything InitGame is handed by reference
Session ==
    [taken |-> TRUE, maze |-> maze, walls |-> walls, wallCount |-> wallCount,
     playerPos |-> playerPos, gameState |-> gameState, torches |-> torches,
     scaryChars |-> scaryChars]

\* the return value of Maze_Create
CreateResult(width, height, cellSize, mallocOk, callocOk) ==
    IF ~CreateArgsInvalid(width, height, cellSize) /\ mallocOk /\ callocOk
    THEN NewMaze(width, height, cellSize)
    ELSE NoMaze

\* Maze_Generate returns early, all walls standing, when one of its two
\* scratch allocations fails
GenerateResult(m, genOk) ==
    IF genOk THEN SerpentineMaze(m.width, m.height, m.cellSize) ELSE m

\* the cells the three placement loops can end on: one the first loop
\* accepts, one the second loop accepts after 200 rejected picks, or any cell
\* after 50 more rejected picks (the start cell is rejected by both loops)
SpawnOutcomes(m, chars) ==
    LET all == (0..(m.width - 1)) \X (0..(m.height - 1))
    IN  { c \in all : SpawnValid(m, c[1], c[2], chars) }
        \cup { c \in all : IsFarEnough(m, c[1], c[2], RELAXED_DISTANCE) }
        \cup all

\* Torches_Generate and the particle-system array: the torch array is not
\* allocated (torchCount 0), or one torch is placed and has its particle
\* system
TorchOutcomes ==
    { [null |-> TRUE, particleSystemsNull |-> TRUE, torchCount |-> 0],
      [null |-> FALSE, particleSystemsNull |-> FALSE, torchCount |-> 1] }

PlacedChar(m, c) ==
    [x |-> Maze_CellToWorld(m, c[1], c[2]).x, z |-> Maze_CellToWorld(m, c[1], c[2]).z,
     speed |-> 1, radius |-> SCARY_CHAR_RADIUS]

\* The body of InitGame.  Both early returns come after the old session has
\* been freed and before anything else is assigned.
\* The maze and the wall rectangles of a call whose allocations succeed:
\* Maze_Create(MAZE_WIDTH, MAZE_HEIGHT, CELL_SIZE), Maze_Generate, and
\* Maze_GetWallRects with maxWalls = MAZE_WIDTH * MAZE_HEIGHT * 4
GameMazes ==
    [genOk \in BOOLEAN |->
        GenerateResult(CreateResult(GameW, 1, CELL_SIZE, TRUE, TRUE), genOk)]
GameWalls ==
    [genOk \in BOOLEAN |-> WallRectWrites(GameMazes[genOk], GameW * 1 * 4)]

\* the cells the placement of the three pursuers can end on, one after the
\* other, in the maze of the call
GameSpawns ==
    [genOk \in BOOLEAN |->
        LET m == GameMazes[genOk]
            all == (0..(m.width - 1)) \X (0..(m.height - 1))
        IN  { c \in all \X all \X all :
                /\ c[1] \in SpawnOutcomes(m, <<>>)
                /\ c[2] \in SpawnOutcomes(m, <<PlacedChar(m, c[1])>>)
                /\ c[3] \in SpawnOutcomes(m, <<PlacedChar(m, c[1]), PlacedChar(m, c[2])>>) }]

InitGame(mallocOk, callocOk, genOk, wallsOk, torchOut, c0, c1, c2) ==
    LET created == IF mallocOk /\ callocOk THEN GameMazes[genOk] ELSE NoMaze
        m == GameMazes[genOk]
        rects == GameWalls[genOk]
        start == Maze_CellToWorld(m, m.startPos[1], m.startPos[2])
    IN  IF created = NoMaze
        THEN \* return after "Failed to create maze!"
             /\ maze' = NoMaze
             /\ walls' = NullWalls
             /\ torches' = [torches EXCEPT !.null = TRUE, !.particleSystemsNull = TRUE]
             /\ fr' = [NoFrame EXCEPT !.init = "maze_failed", !.before = Session]
             /\ UNCHANGED <<wallCount, playerPos, gameState, scaryChars, gameTimer>>
        ELSE IF ~wallsOk
        THEN \* return after "Failed to allocate wall rectangles!"
             /\ maze' = m
             /\ walls' = NullWalls
             /\ torches' = [torches EXCEPT !.null = TRUE, !.particleSystemsNull = TRUE]
             /\ fr' = [NoFrame EXCEPT !.init = "walls_failed", !.before = Session]
             /\ UNCHANGED <<wallCount, playerPos, gameState, scaryChars, gameTimer>>
        ELSE /\ maze' = m
             /\ walls' = [null |-> FALSE, rects |-> rects]
             /\ wallCount' = Len(rects)
             /\ torches' = torchOut
             /\ playerPos' = [x |-> start.x, z |-> start.z]
             /\ <<c0, c1, c2>> \in GameSpawns[genOk]
             /\ scaryChars' = <<PlacedChar(m, c0), PlacedChar(m, c1), PlacedChar(m, c2)>>
             /\ gameState' = GAME_STATE_PLAYING
             /\ gameTimer' = 0
             /\ fr' = [NoFrame EXCEPT !.init = "ok"]

\* the outcomes of one InitGame call: calloc is reached only after malloc
\* succeeded, the wall buffer only after Maze_Create, and the torches and the
\* placement only after the wall buffer
InitGameArgs(mallocOk, callocOk, genOk, wallsOk, torchOut, c0, c1, c2) ==
    LET unused == torchOut = NoTorches /\ c0 = <<0, 0>> /\ c1 = <<0, 0>> /\ c2 = <<0, 0>>
    IN  \/ mallocOk /\ callocOk /\ wallsOk
        \/ mallocOk /\ callocOk /\ ~wallsOk /\ unused
        \/ mallocOk /\ ~callocOk /\ genOk /\ wallsOk /\ unused
        \/ ~mallocOk /\ callocOk /\ genOk /\ wallsOk /\ unused

\* the InitGame call before the loop
GameBoot(mallocOk, callocOk, genOk, wallsOk, torchOut, c0, c1, c2) ==
    /\ pc = "boot"
    /\ InitGame(mallocOk, callocOk, genOk, wallsOk, torchOut, c0, c1, c2)
    /\ pc' = "frame"
    /\ UNCHANGED <<genVars, mapVars, colVars, partVars, moveVars, sp, placedBy>>

\* if (IsKeyPressed(KEY_R)) InitGame(...)
Restart(mallocOk, callocOk, genOk, wallsOk, torchOut, c0, c1, c2) ==
    /\ pc = "frame"
    /\ InitGame(mallocOk, callocOk, genOk, wallsOk, torchOut, c0, c1, c2)
    /\ pc' = "update"
    /\ UNCHANGED <<genVars, mapVars, colVars, partVars, moveVars, sp, placedBy>>

\* KEY_R is not pressed
NoRestart ==
    /\ pc = "frame"
    /\ pc' = "update"
    /\ fr' = NoFrame
    /\ UNCHANGED <<mazeVars, mapVars, colVars, partVars, moveVars, spawnVars,
                   walls, wallCount, playerPos, gameState, torches, gameTimer>>

\* if (gameState == GAME_STATE_PLAYING)
IsPlayingAlways(state) == TRUE
IsPlaying(state) == state = GAME_STATE_PLAYING

\* if (gameState == GAME_STATE_PLAYING) gameTimer += dt;
TimerRunsAlways(state) == TRUE
TimerRuns(state) == state = GAME_STATE_PLAYING

\* the frame of a session that is not PLAYING: the whole update is skipped
FrameIdle ==
    /\ pc = "update"
    /\ ~IsPlaying(gameState)
    /\ TimerRuns(gameState) => gameTimer < MaxTimer
    /\ gameTimer' = IF TimerRuns(gameState) THEN gameTimer + 1 ELSE gameTimer
    /\ pc' = "draw"
    /\ fr' = [NoFrame EXCEPT !.stateAtUpdate = gameState, !.done = TRUE]
    /\ UNCHANGED <<mazeVars, mapVars, colVars, partVars, moveVars, spawnVars,
                   walls, wallCount, playerPos, gameState, torches>>

\* displacements of one frame: wish * speed * dt
HalfCell == CELL_SIZE \div 2
GameSteps == { Vector2(HalfCell * i, HalfCell * j) : i, j \in -1..1 }

\* positions are followed strictly inside the extents of the grid
InWorld(p) ==
    /\ -(GameW * CELL_SIZE) < 2 * p.x /\ 2 * p.x < GameW * CELL_SIZE
    /\ -CELL_SIZE < 2 * p.y /\ 2 * p.y < CELL_SIZE

\* CollidesAny reads walls[0 .. wallCount-1]
WallsReadable == ~walls.null \/ wallCount = 0

\* Movement when walls is NULL and wallCount is left over from the session
\* before: the reads are undefined; garbage makes both tests report the
\* same answer
MoveUndefined(pXZ, step, hit) ==
    IF hit THEN pXZ ELSE Vector2(pXZ.x + step.x, pXZ.y + step.y)

UndefinedOutcomes == {"crash", "hit", "miss"}

\* the timer update, and if (gameState == GAME_STATE_PLAYING): the player's
\* movement
PlayerMove(step, ub) ==
    /\ pc = "update"
    /\ IsPlaying(gameState)
    /\ TimerRuns(gameState) => gameTimer < MaxTimer
    /\ gameTimer' = IF TimerRuns(gameState) THEN gameTimer + 1 ELSE gameTimer
    /\ ub = "hit" \/ ~WallsReadable
    /\ LET pXZ == Vector2(playerPos.x, playerPos.z)
           moved == IF WallsReadable
                    THEN MoveXZ(pXZ, step, PLAYER_RADIUS, walls.rects, wallCount)
                    ELSE MoveUndefined(pXZ, step, ub = "hit")
       IN  IF ~WallsReadable /\ ub = "crash"
           THEN /\ pc' = "crashed"
                /\ fr' = [NoFrame EXCEPT !.stateAtUpdate = gameState]
                /\ UNCHANGED playerPos
           ELSE /\ InWorld(moved)
                /\ playerPos' = [x |-> moved.x, z |-> moved.y]
                /\ pc' = "pursuers"
                /\ fr' = [NoFrame EXCEPT !.stateAtUpdate = gameState,
                                          !.charsAtUpdate = scaryChars]
    /\ UNCHANGED <<mazeVars, mapVars, colVars, partVars, moveVars, spawnVars,
                   walls, wallCount, gameState, torches>>

\* moveStep: the direction to the player, bent by the random angle (it keeps
\* an acute angle with the direction to the player), times speed * dt
PursuerSteps(charPos, playerPos2D, speed) ==
    { step \in GameSteps :
        /\ speed > 0
        /\ step.x * (playerPos2D.x - charPos.x) + step.y * (playerPos2D.y - charPos.y) > 0 }
    \cup (IF speed = 0 THEN {Vector2(0, 0)} ELSE {})

\* if (CircleCircleIntersect(...)) { gameState = GAME_STATE_GAMEOVER; break; }
CaptureBreaksNever(captured) == FALSE
CaptureBreaks(captured) == captured

\* one iteration of for (i = 0; i < SCARY_CHAR_COUNT; i++)
PursuerStep(step, ub) ==
    /\ pc = "pursuers"
    /\ ub = "hit" \/ ~WallsReadable
    /\ LET i == fr.i
           c == scaryChars[i + 1]
           charPos == Vector2(c.x, c.z)
           playerPos2D == Vector2(playerPos.x, playerPos.z)
           far == (playerPos2D.x - charPos.x) * (playerPos2D.x - charPos.x)
                  + (playerPos2D.y - charPos.y) * (playerPos2D.y - charPos.y) > 0
           moved == IF ~far THEN charPos
                    ELSE IF WallsReadable
                    THEN MoveXZ(charPos, step, c.radius, walls.rects, wallCount)
                    ELSE MoveUndefined(charPos, step, ub = "hit")
           captured == CircleCircleIntersect(playerPos2D, PLAYER_RADIUS, moved, c.radius)
       IN  /\ IF far THEN step \in PursuerSteps(charPos, playerPos2D, c.speed)
                     ELSE step = Vector2(0, 0) /\ ub = "hit"
           /\ IF far /\ ~WallsReadable /\ ub = "crash"
              THEN /\ pc' = "crashed"
                   /\ UNCHANGED <<scaryChars, gameState, fr>>
              ELSE /\ InWorld(moved)
                   /\ scaryChars' = [scaryChars EXCEPT ![i + 1] = [c EXCEPT !.x = moved.x, !.z = moved.y]]
                   /\ gameState' = IF captured THEN GAME_STATE_GAMEOVER ELSE gameState
                   /\ fr' = [fr EXCEPT !.i = i + 1,
                                       !.order = Append(fr.order, i),
                                       !.capturedBy = IF captured /\ fr.capturedBy < 0
                                                      THEN i ELSE fr.capturedBy]
                   /\ pc' = IF CaptureBreaks(captured) \/ i + 1 = SCARY_CHAR_COUNT
                            THEN "exitcheck" ELSE "pursuers"
    /\ UNCHANGED <<mazeVars, mapVars, colVars, partVars, moveVars, sp, placedBy,
                   walls, wallCount, playerPos, torches, gameTimer>>

Maze_IsExitStart(m, cellX, cellY) == cellX = m.startPos[1] /\ cellY = m.startPos[2]
Maze_IsExit(m, cellX, cellY) == cellX = m.exitPos[1] /\ cellY = m.exitPos[2]

\* Maze_WorldToCell; if (Maze_IsExit(...)) gameState = GAME_STATE_WON;
\* with maze NULL both calls read through a null pointer
ExitCheck(ub) ==
    /\ pc = "exitcheck"
    /\ ub = "hit" \/ maze = NoMaze
    /\ IF maze = NoMaze /\ ub = "crash"
       THEN /\ pc' = "crashed"
            /\ UNCHANGED <<gameState, fr>>
       ELSE LET cell == Maze_WorldToCell(maze, playerPos.x, playerPos.z)
                isExit == IF maze = NoMaze THEN ub = "hit"
                          ELSE Maze_IsExit(maze, cell.x, cell.y)
            IN  /\ gameState' = IF isExit THEN GAME_STATE_WON
                                ELSE gameState
                /\ fr' = [fr EXCEPT !.done = TRUE, !.charsAtUpdate = <<>>, !.order = <<>>]
                /\ pc' = "draw"
    /\ UNCHANGED <<mazeVars, mapVars, colVars, partVars, moveVars, spawnVars,
                   walls, wallCount, playerPos, torches, gameTimer>>

\* the rest of the frame: camera and drawing, which assign none of the
\* session's variables
DrawFreesWalls ==
    /\ pc = "draw"
    /\ pc' = "frame"
    /\ fr' = NoFrame
    /\ walls' = NullWalls
    /\ wallCount' = 0
    /\ UNCHANGED <<mazeVars, mapVars, colVars, partVars, moveVars, spawnVars,
                   playerPos, gameState, torches, gameTimer>>
Draw ==
    /\ pc = "draw"
    /\ pc' = "frame"
    /\ fr' = NoFrame
    /\ UNCHANGED <<mazeVars, mapVars, colVars, partVars, moveVars, spawnVars,
                   walls, wallCount, playerPos, gameState, torches, gameTimer>>

(***************************************************************************)
(* Specifications                                                          *)
(***************************************************************************)
InitPart ==
    /\ ps = NoPS
    /\ psLast = NoUpdate

InitMv ==
    /\ mvIn = NoMove
    /\ mvOut = Vector2(0, 0)

InitSpawn ==
    /\ sp = NoSpawn
    /\ scaryChars = <<>>
    /\ placedBy = <<>>

\* the declarations of main before the first InitGame call
InitMain ==
    /\ walls = NullWalls
    /\ wallCount = 0
    /\ playerPos = [x |-> 0, z |-> 0]
    /\ gameState = GAME_STATE_PLAYING
    /\ torches = NoTorches
    /\ gameTimer = 0
    /\ fr = NoFrame

InitRest ==
    /\ InitPart
    /\ InitMv
    /\ InitSpawn
    /\ InitMain

InitApi ==
    /\ lastCreate = NoCall
    /\ visited = <<>>
    /\ stack = <<>>
    /\ pushes = <<>>
    /\ outRects = <<>>
    /\ rectCount = 0
    /\ maxRects = 0
    /\ ret = NoRet
    /\ twin = NoTwin
    /\ cellArg = NoCell
    /\ world = NoWorld
    /\ cellOut = NoCell
    /\ colOut = FALSE

InitOther ==
    /\ InitApi
    /\ InitRest

\* the maze API: nothing has been created yet
Init ==
    /\ pc = "idle"
    /\ maze = NoMaze
    /\ heap = {}
    /\ colIn = NoCol
    /\ InitOther

Maze_Generate ==
    \/ \E vOk \in BOOLEAN, sOk \in BOOLEAN : Maze_GenerateBegin(vOk, sOk)
    \/ \E j3 \in 0..3, j2 \in 0..2, j1 \in 0..1 : Maze_GenerateStep(j3, j2, j1)
    \/ Maze_GenerateEnd

Next ==
    \/ \E w \in WidthArgs, h \in HeightArgs, cs \in CellSizeArgs, mOk \in BOOLEAN, cOk \in BOOLEAN :
          Maze_Create(w, h, cs, mOk, cOk)
    \/ Maze_Destroy
    \/ Maze_Generate
    \/ \E x \in -1..maze.width, y \in -1..maze.height, d \in Directions : CallHasWall(x, y, d)
    \/ \E maxR \in MaxRectsArgs(maze) : Maze_GetWallRects(maxR)

Spec == Init /\ [][Next]_vars

\* Maze_Generate is a loop of a single-threaded program: once entered it keeps
\* executing iterations until the loop condition fails, and then returns
FairSpec ==
    /\ Spec
    /\ WF_vars(\E j3 \in 0..3, j2 \in 0..2, j1 \in 0..1 : Maze_GenerateStep(j3, j2, j1))
    /\ WF_vars(Maze_GenerateEnd)

\* the largest width and height of the two grids
TwinMax == 3

\* two freshly created mazes of one size
InitTwin ==
    /\ pc = "twin_created"
    /\ \E w \in 1..TwinMax, h \in 1..TwinMax :
          /\ maze = NewMaze(w, h, CELL_SIZE)
          /\ twin = [NoTwin EXCEPT !.cells = NewMaze(w, h, CELL_SIZE).cells]
    /\ heap = {"maze", "cells"}
    /\ colIn = NoCol
    /\ lastCreate = NoCall
    /\ visited = <<>>
    /\ stack = <<>>
    /\ pushes = <<>>
    /\ outRects = <<>>
    /\ rectCount = 0
    /\ maxRects = 0
    /\ ret = NoRet
    /\ cellArg = NoCell
    /\ world = NoWorld
    /\ cellOut = NoCell
    /\ colOut = FALSE
    /\ InitRest

NextTwin ==
    \/ \E blockA \in HeapBlocks(maze.width * maze.height),
          blockB \in HeapBlocks(maze.width * maze.height) : TwinBegin(blockA, blockB)
    \/ \E j3 \in 0..3, j2 \in 0..2, j1 \in 0..1 : TwinStep(j3, j2, j1)
    \/ TwinEnd

SpecTwin == InitTwin /\ [][NextTwin]_vars

\* the coordinate mapping, applied to a freshly created maze of every size
InitMap ==
    /\ pc = "created"
    /\ \E w \in 1..MaxW, h \in 1..MaxH, cs \in MapCellSizes : maze = NewMaze(w, h, cs)
    /\ heap = {"maze", "cells"}
    /\ colIn = NoCol
    /\ InitOther

NextMap ==
    \/ \E x \in -1..maze.width, y \in -1..maze.height : CallCellToWorld(x, y)
    \/ \E wx \in WorldArgs(maze.width, maze.cellSize), wz \in WorldArgs(maze.height, maze.cellSize) :
          HoldWorld(wx, wz)
    \/ CallWorldToCell

SpecMap == InitMap /\ [][NextMap]_vars

\* the collision predicate, applied to every circle and rectangle of the bounds
InitCollide ==
    /\ pc = "col_args"
    /\ maze = NoMaze
    /\ heap = {}
    /\ \E cx \in -MaxCoord..MaxCoord, cz \in -MaxCoord..MaxCoord, r \in RadiusArgs, rect \in RectArgs :
          colIn = [c |-> [x |-> cx, y |-> cz], r |-> r, rect |-> rect]
    /\ InitOther

NextCollide == CallCircleRectIntersect

SpecCollide == InitCollide /\ [][NextCollide]_vars

\* one particle system, as InitGame creates one per torch
InitParticles ==
    /\ pc = "particles"
    /\ maze = NoMaze
    /\ heap = {}
    /\ colIn = NoCol
    /\ InitOther

NextParticles ==
    \/ \E maxP \in 0..MaxParticles, psOk \in BOOLEAN, particlesOk \in BOOLEAN :
          ParticleSystem_Create(maxP, psOk, particlesOk)
    \/ \E dt \in 0..MaxDt : ParticleSystem_Update(dt)
    \/ ParticleSystem_Destroy

SpecParticles == InitParticles /\ [][NextParticles]_vars

\* movement resolution from every position that is clear of the walls
InitMove ==
    /\ pc = "move_args"
    /\ maze = NoMaze
    /\ heap = {}
    /\ colIn = NoCol
    /\ InitApi
    /\ InitPart
    /\ InitSpawn
    /\ InitMain
    /\ mvOut = Vector2(0, 0)
    /\ \E pos \in MovePositions, step \in MoveSteps, wallArr \in MoveWalls,
          r \in {PLAYER_RADIUS, SCARY_CHAR_RADIUS} :
          /\ ~CollidesAny(pos, r, wallArr, Len(wallArr))
          /\ mvIn = [pos |-> pos, step |-> step, r |-> r, walls |-> wallArr,
                     wallCount |-> Len(wallArr)]

NextMove == MovePlayer \/ MoveScaryChar

SpecMove == InitMove /\ [][NextMove]_vars

\* InitGame has generated the maze and reset the player; the pursuers follow
InitPlacement ==
    /\ pc = "spawn"
    /\ maze = SerpentineMaze(SpawnW, SpawnH, CELL_SIZE)
    /\ heap = {"maze", "cells"}
    /\ colIn = NoCol
    /\ InitOther

NextPlacement ==
    \/ \E cellX \in 0..(maze.width - 1), cellY \in 0..(maze.height - 1) :
          SpawnConstrainedPick(cellX, cellY)
    \/ \E cellX \in 0..(maze.width - 1), cellY \in 0..(maze.height - 1) :
          SpawnRelaxedPick(cellX, cellY)
    \/ \E cellX \in 0..(maze.width - 1), cellY \in 0..(maze.height - 1) :
          SpawnFallbackPick(cellX, cellY)

SpecPlacement == InitPlacement /\ [][NextPlacement]_vars

\* main, from its declarations on
InitGameLoop ==
    /\ pc = "boot"
    /\ maze = NoMaze
    /\ heap = {}
    /\ colIn = NoCol
    /\ InitApi
    /\ InitPart
    /\ InitMv
    /\ InitMain
    /\ sp = NoSpawn
    /\ placedBy = <<>>
    /\ scaryChars = <<ZeroChar, ZeroChar, ZeroChar>>

GameCells == (0..(GameW - 1)) \X {0}

\* the allocation results, torches and random cells of an InitGame call
InitGameOutcomes ==
    { a \in BOOLEAN \X BOOLEAN \X BOOLEAN \X BOOLEAN \X TorchOutcomes
            \X GameCells \X GameCells \X GameCells :
        InitGameArgs(a[1], a[2], a[3], a[4], a[5], a[6], a[7], a[8]) }

NextGame ==
    \/ \E a \in InitGameOutcomes : GameBoot(a[1], a[2], a[3], a[4], a[5], a[6], a[7], a[8])
    \/ \E a \in InitGameOutcomes : Restart(a[1], a[2], a[3], a[4], a[5], a[6], a[7], a[8])
    \/ NoRestart
    \/ FrameIdle
    \/ \E step \in GameSteps, ub \in UndefinedOutcomes : PlayerMove(step, ub)
    \/ \E step \in GameSteps, ub \in UndefinedOutcomes : PursuerStep(step, ub)
    \/ \E ub \in UndefinedOutcomes : ExitCheck(ub)
    \/ Draw

SpecGame == InitGameLoop /\ [][NextGame]_vars

(***************************************************************************)
(* Topology of a maze, read from the wall masks                            *)
(***************************************************************************)
Cells(m) == (0..(m.width - 1)) \X (0..(m.height - 1))

\* the wall bit d of the in-bounds cell (x, y)
WallBit(m, x, y, d) == (m.cells[y * m.width + x] \div d) % 2 = 1

\* adjacent cell pairs with no wall between them, on either side
OpenPairs(m) ==
    { <<a, b>> \in Cells(m) \X Cells(m) :
        \/ /\ b[1] = a[1] + 1 /\ b[2] = a[2]
           /\ ~WallBit(m, a[1], a[2], MAZE_EAST) /\ ~WallBit(m, b[1], b[2], MAZE_WEST)
        \/ /\ b[1] = a[1] /\ b[2] = a[2] + 1
           /\ ~WallBit(m, a[1], a[2], MAZE_SOUTH) /\ ~WallBit(m, b[1], b[2], MAZE_NORTH) }

\* flood fill from the cells S through the passages open
RECURSIVE Flood(_, _)
Flood(open, S) ==
    LET T == S \cup { p[2] : p \in { q \in open : q[1] \in S } }
               \cup { p[1] : p \in { q \in open : q[2] \in S } }
    IN  IF T = S THEN S ELSE Flood(open, T)

\* The physical walls of a maze: a horizontal wall lies on the grid line k
\* (0..height) above column x, a vertical wall on the grid line k (0..width)
\* left of row y.  A wall is present when a cell on either side has the bit.
HorizontalWalls(m) ==
    { <<x, k>> \in (0..(m.width - 1)) \X (0..m.height) :
        \/ k < m.height /\ WallBit(m, x, k, MAZE_NORTH)
        \/ k > 0 /\ WallBit(m, x, k - 1, MAZE_SOUTH) }

VerticalWalls(m) ==
    { <<k, y>> \in (0..m.width) \X (0..(m.height - 1)) :
        \/ k < m.width /\ WallBit(m, k, y, MAZE_WEST)
        \/ k > 0 /\ WallBit(m, k - 1, y, MAZE_EAST) }

\* world coordinate of grid line k of n: (k - n/2) * cellSize
GridLine(k, n, cellSize) == ((2 * k - n) * cellSize) \div 2

HorizontalWallRect(m, x, k) ==
    Rectangle(GridLine(x, m.width, m.cellSize) - wallThick \div 2,
              GridLine(k, m.height, m.cellSize) - wallThick \div 2,
              m.cellSize + wallThick, wallThick)

VerticalWallRect(m, k, y) ==
    Rectangle(GridLine(k, m.width, m.cellSize) - wallThick \div 2,
              GridLine(y, m.height, m.cellSize) - wallThick \div 2,
              wallThick, m.cellSize + wallThick)

PhysicalWallRects(m) ==
    { HorizontalWallRect(m, w[1], w[2]) : w \in HorizontalWalls(m) }
        \cup { VerticalWallRect(m, w[1], w[2]) : w \in VerticalWalls(m) }

NumPhysicalWalls(m) == Cardinality(HorizontalWalls(m)) + Cardinality(VerticalWalls(m))

(***************************************************************************)
(* Properties                                                              *)
(***************************************************************************)

\* C1: when Maze_Generate has run to completion on a freshly created maze, the
\* number of adjacent cell pairs with no wall between them is width*height - 1
\* and the flood fill from every cell reaches every cell (a spanning tree).
PerfectMaze ==
    pc = "generated" =>
        LET open == OpenPairs(maze)
        IN  /\ Cardinality(open) = maze.width * maze.height - 1
            /\ \A c \in Cells(maze) : Flood(open, {c}) = Cells(maze)

PerfectMazeWitness ==
    /\ pc = "generated"
    /\ maze.width >= 2
    /\ maze.height >= 2

\* C2: the generation loop terminates: once entered, the stack eventually
\* becomes empty and Maze_Generate returns; when the stack is empty every
\* cell is marked visited and has been pushed exactly once.
StackEmptyAllVisited ==
    (pc = "gen" /\ Len(stack) = 0) =>
        \A i \in 0..(maze.width * maze.height - 1) : visited[i] /\ pushes[i] = 1

GenerateTerminates ==
    /\ []StackEmptyAllVisited
    /\ (pc = "gen") ~> (pc = "gen" /\ Len(stack) = 0)
    /\ (pc = "gen") ~> (pc = "generated")

GenerateTerminatesWitness ==
    /\ pc = "gen"
    /\ Len(stack) = 0
    /\ maze.width >= 2
    /\ maze.height >= 2

\* C3: Maze_Create returns NULL when width < 1, height < 1 or cellSize <= 0,
\* and when either allocation fails; after a NULL return no maze object and
\* no heap block of it exists.
CreateFailsClean ==
    /\ ( /\ lastCreate.ret # "none"
         /\ \/ lastCreate.width < 1
            \/ lastCreate.height < 1
            \/ lastCreate.cellSize <= 0
            \/ ~lastCreate.mallocOk
            \/ ~lastCreate.callocOk )
       => lastCreate.ret = "NULL"
    /\ lastCreate.ret = "NULL" => (pc = "idle" /\ maze = NoMaze /\ heap = {})

CreateFailsCleanWitness ==
    /\ lastCreate.ret = "NULL"
    /\ lastCreate.width >= 1
    /\ lastCreate.height >= 1
    /\ lastCreate.cellSize = 0

\* C4: Maze_HasWall returns true for every cell outside the grid, and for a
\* cell inside the grid exactly whether the direction bit is set in its mask,
\* before and after generation.
HasWallCorrect ==
    ret.called =>
        ret.value =
            IF ret.x < 0 \/ ret.x >= maze.width \/ ret.y < 0 \/ ret.y >= maze.height
            THEN TRUE
            ELSE WallBit(maze, ret.x, ret.y, ret.direction)

HasWallCorrectWitness ==
    /\ ret.called
    /\ pc = "generated"
    /\ ret.x = maze.width
    /\ ret.value

\* C5: for every maze size and every valid cell, Maze_WorldToCell of the
\* world point returned by Maze_CellToWorld is the cell itself.
RoundTrip ==
    ( /\ pc = "cell_of_center"
      /\ <<cellArg.x, cellArg.y>> \in Cells(maze) )
    => cellOut = cellArg

RoundTripWitness ==
    /\ pc = "cell_of_center"
    /\ maze.width % 2 = 1
    /\ maze.height % 2 = 0
    /\ cellArg.x = maze.width - 1
    /\ cellArg.y = 0

\* the sum worldX/cellSize + width/2 as the fraction AxisNum / AxisDen
AxisNum(w, n, cellSize) == 2 * w + n * cellSize
AxisDen(cellSize) == 2 * cellSize

\* q = floor(num / den)
IsFloor(q, num, den) == q * den <= num /\ num < (q + 1) * den
\* q = ceiling(num / den)
IsCeiling(q, num, den) == (q - 1) * den < num /\ num <= q * den

\* C6, as claimed: Maze_WorldToCell returns floor(world/cellSize + n/2) on
\* both axes for every world coordinate, negative sums included.
WorldToCellIsFloor ==
    pc \in {"cell_of_any", "cell_of_center"} =>
        /\ IsFloor(cellOut.x, AxisNum(world.x, maze.width, maze.cellSize), AxisDen(maze.cellSize))
        /\ IsFloor(cellOut.y, AxisNum(world.z, maze.height, maze.cellSize), AxisDen(maze.cellSize))

\* C6, amended: Maze_WorldToCell truncates the sum toward zero: the result is
\* the floor when the sum is >= 0 and the ceiling when the sum is negative.
WorldToCellTruncates ==
    pc \in {"cell_of_any", "cell_of_center"} =>
        LET nx == AxisNum(world.x, maze.width, maze.cellSize)
            ny == AxisNum(world.z, maze.height, maze.cellSize)
            den == AxisDen(maze.cellSize)
        IN  /\ IF nx >= 0 THEN IsFloor(cellOut.x, nx, den) ELSE IsCeiling(cellOut.x, nx, den)
            /\ IF ny >= 0 THEN IsFloor(cellOut.y, ny, den) ELSE IsCeiling(cellOut.y, ny, den)

WorldToCellTruncatesWitness ==
    /\ pc = "cell_of_any"
    /\ AxisNum(world.x, maze.width, maze.cellSize) < 0
    /\ AxisNum(world.x, maze.width, maze.cellSize) % AxisDen(maze.cellSize) # 0
    /\ cellOut.x = 0

\* the world point lies outside the extents of the grid
OutsideExtents(m, p) ==
    \/ 2 * p.x < -(m.width * m.cellSize)
    \/ 2 * p.x >= m.width * m.cellSize
    \/ 2 * p.z < -(m.height * m.cellSize)
    \/ 2 * p.z >= m.height * m.cellSize

\* C7, as claimed: for a world position outside the grid extents
\* Maze_WorldToCell returns cell coordinates inside the grid.
WorldToCellClamped ==
    (pc = "cell_of_any" /\ OutsideExtents(maze, world)) =>
        <<cellOut.x, cellOut.y>> \in Cells(maze)

\* on one axis: at or beyond the far edge the coordinate is >= n, a full cell
\* or more before the near edge it is negative, and in between it is in 0..n-1
AxisUnclamped(q, w, n, cellSize) ==
    /\ 2 * w >= n * cellSize => q >= n
    /\ 2 * w <= -(n * cellSize) - 2 * cellSize => q <= -1
    /\ (2 * w < n * cellSize /\ 2 * w > -(n * cellSize) - 2 * cellSize) => q \in 0..(n - 1)

\* C7, amended: the query is not an error but its result is not clamped: the
\* coordinate is >= width (height) at or beyond the east (south) edge and
\* negative a full cell or more beyond the west (north) edge.
WorldToCellUnclamped ==
    pc = "cell_of_any" =>
        /\ AxisUnclamped(cellOut.x, world.x, maze.width, maze.cellSize)
        /\ AxisUnclamped(cellOut.y, world.z, maze.height, maze.cellSize)

WorldToCellUnclampedWitness ==
    /\ pc = "cell_of_any"
    /\ OutsideExtents(maze, world)
    /\ cellOut.x > maze.width
    /\ cellOut.y < 0

\* the rectangles written, without the order
WrittenRects(rects) == { rects[i].rect : i \in 1..Len(rects) }

NoRectTwice(rects) ==
    \A i, j \in 1..Len(rects) : rects[i].rect = rects[j].rect => i = j

\* C8: after a Maze_GetWallRects call with a buffer large enough the buffer
\* holds exactly one segment per physical wall of the maze: none twice, none
\* omitted.
WallRectsOnePerWall ==
    (maxRects > 0 /\ maxRects >= NumPhysicalWalls(maze)) =>
        /\ NoRectTwice(outRects)
        /\ WrittenRects(outRects) = PhysicalWallRects(maze)
        /\ rectCount = NumPhysicalWalls(maze)

WallRectsOnePerWallWitness ==
    /\ pc = "generated"
    /\ maze.width >= 2
    /\ maze.height >= 2
    /\ maxRects = maze.width * maze.height * 4
    /\ Len(outRects) = NumPhysicalWalls(maze)
    /\ WrittenRects(outRects) = PhysicalWallRects(maze)

\* C9, as claimed: isVertical is true for the North and South walls and false
\* for the East and West walls in every WallRect written.
IsVerticalAsDocumented ==
    \A i \in 1..Len(outRects) :
        outRects[i].isVertical = (outRects[i].side \in {MAZE_NORTH, MAZE_SOUTH})

\* the squared distance from the centre c to the point (px, pz)
DistSq(c, px, pz) == (c.x - px) * (c.x - px) + (c.y - pz) * (c.y - pz)

\* the least squared distance from c to a point of the rectangle
NearestDistSq(c, rect) ==
    CHOOSE d \in 0..(8 * (MaxCoord + 4) * (MaxCoord + 4)) :
        /\ \E px \in rect.x..(rect.x + rect.width), pz \in rect.y..(rect.y + rect.height) :
              DistSq(c, px, pz) = d
        /\ \A px \in rect.x..(rect.x + rect.width), pz \in rect.y..(rect.y + rect.height) :
              DistSq(c, px, pz) >= d

\* C10: CircleRectIntersect is true exactly when the squared distance from
\* the centre to the nearest point of the rectangle is <= r*r: true at
\* distance exactly r and inside the rectangle, false beyond r.
CircleRectInclusive ==
    pc = "col_done" =>
        colOut = (NearestDistSq(colIn.c, colIn.rect) <= colIn.r * colIn.r)

CircleRectInclusiveWitness ==
    /\ pc = "col_done"
    /\ colOut
    /\ NearestDistSq(colIn.c, colIn.rect) = colIn.r * colIn.r
    /\ colIn.c.x > colIn.rect.x + colIn.rect.width
    /\ colIn.c.y > colIn.rect.y + colIn.rect.height

\* C17: the pool never holds more than maxParticles particles and no update
\* writes a slot at index >= maxParticles.
PoolBounded ==
    ~ps.null =>
        /\ 0 <= ps.activeParticles
        /\ ps.activeParticles <= ps.maxParticles
        /\ Len(ps.particles) = ps.activeParticles
        /\ psLast.maxWrite < ps.maxParticles

PoolBoundedWitness ==
    /\ psLast.called
    /\ psLast.toEmit > ps.maxParticles - psLast.activeBefore
    /\ psLast.activeBefore > 0
    /\ ps.activeParticles = ps.maxParticles

\* C18: after an update no active particle has life <= 0, also when several
\* particles die in one call and the last active one is among them.
NoDeadParticle ==
    \A i \in 1..Len(ps.particles) : ps.particles[i].life > 0

NoDeadParticleWitness ==
    /\ psLast.called
    /\ psLast.removed >= 2
    /\ ps.activeParticles >= 1

\* C19: an update adds emitRate*dt to the accumulator, emits
\* min(floor(accumulator), maxParticles - activeParticles) particles and
\* subtracts the whole floor, so the accumulator ends in [0, 1).
EmissionAccounting ==
    psLast.called =>
        LET acc1 == psLast.accBefore + EmitIncrement(psLast.dt)
            whole == acc1 \div 2
            room == ps.maxParticles - psLast.activeBefore
        IN  /\ psLast.emitted = IF whole < room THEN whole ELSE room
            /\ ps.emitAccumulator = acc1 - 2 * whole
            /\ 0 <= ps.emitAccumulator
            /\ ps.emitAccumulator < 2

EmissionAccountingWitness ==
    /\ psLast.called
    /\ psLast.toEmit > psLast.emitted
    /\ psLast.emitted > 0
    /\ ps.emitAccumulator = 1

\* C11: the X displacement alone is accepted iff the circle then touches no
\* wall, then the Z displacement alone from the resulting position likewise;
\* a circle at (0,0) of radius 0.3 moving by (1,1) against the wall
\* x in [0.5,1.5], z in [-1,1] ends at (0,1).
AxisGap(v, lo, hi) == IF v < lo THEN lo - v ELSE IF v > hi THEN v - hi ELSE 0

TouchesWall(x, z) ==
    \E i \in 1..Len(mvIn.walls) :
        LET rect == mvIn.walls[i].rect
            gx == AxisGap(x, rect.x, rect.x + rect.width)
            gz == AxisGap(z, rect.y, rect.y + rect.height)
        IN  gx * gx + gz * gz <= mvIn.r * mvIn.r

SlidingScenario ==
    /\ mvIn.pos = Vector2(0, 0)
    /\ mvIn.step = Vector2(20, 20)
    /\ mvIn.r = PLAYER_RADIUS
    /\ mvIn.walls = <<[rect |-> Rectangle(10, -20, 20, 40), isVertical |-> FALSE]>>

MoveXThenZ ==
    pc = "move_done" =>
        LET x1 == IF TouchesWall(mvIn.pos.x + mvIn.step.x, mvIn.pos.y)
                  THEN mvIn.pos.x ELSE mvIn.pos.x + mvIn.step.x
            z1 == IF TouchesWall(x1, mvIn.pos.y + mvIn.step.y)
                  THEN mvIn.pos.y ELSE mvIn.pos.y + mvIn.step.y
        IN  /\ mvOut = Vector2(x1, z1)
            /\ SlidingScenario => mvOut = Vector2(0, 20)

MoveXThenZWitness ==
    /\ pc = "move_done"
    /\ SlidingScenario
    /\ mvOut = Vector2(0, 20)

\* the cell whose centre is the position p
CellOfCentre(m, p) ==
    CHOOSE c \in Cells(m) :
        /\ 2 * p.x = (2 * c[1] - m.width + 1) * m.cellSize
        /\ 2 * p.z = (2 * c[2] - m.height + 1) * m.cellSize

IsCellCentre(m, p) ==
    \E c \in Cells(m) :
        /\ 2 * p.x = (2 * c[1] - m.width + 1) * m.cellSize
        /\ 2 * p.z = (2 * c[2] - m.height + 1) * m.cellSize

\* C13: a pursuer whose cell was accepted by the first loop is not on the
\* start cell, not on the exit cell, not in the cell of an earlier pursuer
\* and at least MIN_DISTANCE_FROM_PLAYER from the player's start position.
ConstrainedSpawn ==
    \A k \in 1..Len(scaryChars) :
        placedBy[k] = "constrained" =>
            LET c == CellOfCentre(maze, scaryChars[k])
                s == CellOfCentre(maze, Maze_CellToWorld(maze, 0, 0))
            IN  /\ IsCellCentre(maze, scaryChars[k])
                /\ c # <<0, 0>>
                /\ c # <<maze.width - 1, maze.height - 1>>
                /\ \A j \in 1..(k - 1) : scaryChars[j] # scaryChars[k]
                /\ ((c[1] - s[1]) * (c[1] - s[1]) + (c[2] - s[2]) * (c[2] - s[2]))
                       * maze.cellSize * maze.cellSize
                   >= MIN_DISTANCE_FROM_PLAYER * MIN_DISTANCE_FROM_PLAYER

ConstrainedSpawnWitness ==
    /\ pc = "spawned"
    /\ placedBy = <<"degraded", "constrained", "degraded">>
    /\ ~IsFarEnough(maze, CellOfCentre(maze, scaryChars[1])[1],
                    CellOfCentre(maze, scaryChars[1])[2], MIN_DISTANCE_FROM_PLAYER)
    /\ scaryChars[3] = scaryChars[2]

\* C14: placement terminates for every sequence of picks: each pursuer is
\* placed after at most 200 constrained picks, then at most 50 distance-only
\* picks, then one unconstrained pick (every pick is possible while a pursuer
\* is unplaced and uses up the remaining budget), and every pursuer placed
\* stands on the centre of an in-bounds cell.
PicksLeft ==
    (SCARY_CHAR_COUNT - sp.i) * (SPAWN_ATTEMPTS + SPAWN_RETRIES + 1)
        + (SPAWN_ATTEMPTS - sp.attempts) + (SPAWN_RETRIES - sp.retry)

SpawnBudget ==
    /\ sp.i = Len(scaryChars)
    /\ sp.i <= SCARY_CHAR_COUNT
    /\ 0 <= sp.attempts /\ sp.attempts <= SPAWN_ATTEMPTS
    /\ 0 <= sp.retry /\ sp.retry <= SPAWN_RETRIES
    /\ sp.retry > 0 => sp.attempts = SPAWN_ATTEMPTS
    /\ pc = "spawned" <=> sp.i = SCARY_CHAR_COUNT
    /\ pc = "spawn" => ENABLED NextPlacement
    /\ \A k \in 1..Len(scaryChars) : IsCellCentre(maze, scaryChars[k])

SpawnTerminates ==
    /\ []SpawnBudget
    /\ [][PicksLeft' < PicksLeft /\ PicksLeft' >= 0]_vars

SpawnTerminatesWitness ==
    /\ pc = "spawned"
    /\ \A k \in 1..SCARY_CHAR_COUNT : placedBy[k] = "degraded"
    /\ \A k \in 1..SCARY_CHAR_COUNT : scaryChars[k] = Maze_CellToWorld(maze, 0, 0)

\* C12: pursuer positions change only in frames that begin the update with
\* the session state PLAYING (or by InitGame): a frame that begins it WON or
\* GAMEOVER modifies no pursuer.
FrozenUnlessPlaying ==
    [][scaryChars' # scaryChars =>
          \/ pc \in {"boot", "frame"}
          \/ pc = "pursuers" /\ fr.stateAtUpdate = GAME_STATE_PLAYING]_vars

FrozenUnlessPlayingWitness ==
    /\ pc = "draw"
    /\ fr.done
    /\ fr.stateAtUpdate = GAME_STATE_GAMEOVER
    /\ \E k \in 1..SCARY_CHAR_COUNT :
          /\ scaryChars[k].speed > 0
          /\ scaryChars[k].x # playerPos.x

\* C15: the pursuers are processed in index order; the first one that
\* intersects the player after its own movement sets GAME_STATE_GAMEOVER and
\* ends the loop, and the pursuers after it are neither moved nor checked.
Touches(k) ==
    LET dx == playerPos.x - scaryChars[k].x
        dz == playerPos.z - scaryChars[k].z
        sum == PLAYER_RADIUS + scaryChars[k].radius
    IN  dx * dx + dz * dz <= sum * sum

PursuerLoopOrder ==
    pc = "exitcheck" =>
        /\ \A k \in 1..Len(fr.order) : fr.order[k] = k - 1
        /\ fr.capturedBy >= 0 =>
              /\ gameState = GAME_STATE_GAMEOVER
              /\ Len(fr.order) = fr.capturedBy + 1
              /\ Touches(fr.capturedBy + 1)
              /\ \A k \in 1..fr.capturedBy : ~Touches(k)
              /\ \A k \in (fr.capturedBy + 2)..SCARY_CHAR_COUNT :
                    scaryChars[k] = fr.charsAtUpdate[k]
        /\ fr.capturedBy < 0 =>
              /\ gameState = GAME_STATE_PLAYING
              /\ Len(fr.order) = SCARY_CHAR_COUNT
              /\ \A k \in 1..SCARY_CHAR_COUNT : ~Touches(k)

PursuerLoopOrderWitness ==
    /\ pc = "exitcheck"
    /\ fr.capturedBy = 0
    /\ Touches(2)
    /\ ~Touches(3)
    /\ scaryChars[3].speed > 0

\* C16: a frame in which the capture check found a pursuer within the sum of
\* the radii ends in GAME_STATE_GAMEOVER, wherever the player stands.
CaptureMeansLost ==
    (pc = "draw" /\ fr.done /\ fr.capturedBy >= 0) => gameState = GAME_STATE_GAMEOVER

\* C20: when InitGame has returned, either the whole session is a fresh one
\* in state PLAYING or nothing of the session before the call has changed.
FreshSession ==
    /\ maze # NoMaze
    /\ ~walls.null
    /\ wallCount = Len(walls.rects)
    /\ playerPos = [x |-> Maze_CellToWorld(maze, 0, 0).x, z |-> Maze_CellToWorld(maze, 0, 0).z]
    /\ \A k \in 1..SCARY_CHAR_COUNT :
          /\ IsCellCentre(maze, scaryChars[k])
          /\ scaryChars[k].radius = SCARY_CHAR_RADIUS
    /\ torches.null => torches.torchCount = 0
    /\ gameState = GAME_STATE_PLAYING

RestartAtomic ==
    fr.init # "none" => (FreshSession \/ Session = fr.before)

IsInitGameCall == pc = "boot" \/ (pc = "frame" /\ fr'.init # "none")

PlayerCell == Maze_WorldToCell(maze, playerPos.x, playerPos.z)

OnExitCell == PlayerCell.x = maze.width - 1 /\ PlayerCell.y = maze.height - 1

WonIffOnExit ==
    (pc = "draw" /\ fr.done) =>
        /\ (fr.stateAtUpdate = GAME_STATE_PLAYING /\ maze # NoMaze)
              => (gameState = GAME_STATE_WON <=> OnExitCell)
        /\ fr.stateAtUpdate # GAME_STATE_PLAYING => gameState = fr.stateAtUpdate

WonIffOnExitWitness ==
    /\ pc = "draw"
    /\ fr.done
    /\ fr.stateAtUpdate = GAME_STATE_PLAYING
    /\ maze # NoMaze
    /\ ~walls.null
    /\ gameTimer > 0
    /\ OnExitCell
    /\ gameState = GAME_STATE_WON

\* C24: from the end of a frame that left the state GAME_STATE_WON or
\* GAME_STATE_GAMEOVER on, every step up to the end of the next frame that is
\* not an InitGame call keeps the state, the player's x and z and the timer;
\* and a step that makes the state GAME_STATE_PLAYING again is an InitGame
\* call.
BetweenFrames == pc \in {"draw", "frame", "update"}

IsOver == gameState \in {GAME_STATE_WON, GAME_STATE_GAMEOVER}

OverIsAbsorbing ==
    /\ [][ (BetweenFrames /\ IsOver /\ ~IsInitGameCall)
              => (gameState' = gameState /\ playerPos' = playerPos /\ gameTimer' = gameTimer) ]_vars
    /\ [][ (gameState # GAME_STATE_PLAYING /\ gameState' = GAME_STATE_PLAYING)
              => IsInitGameCall ]_vars

OverIsAbsorbingWitness ==
    /\ pc = "draw"
    /\ fr.done
    /\ fr.stateAtUpdate = GAME_STATE_WON
    /\ gameState = GAME_STATE_WON
    /\ maze # NoMaze
    /\ gameTimer > 0

\* C25: whenever a maze exists, before, during and after Maze_Generate (each
\* loop iteration taken as one step), the East bit of a cell equals the West
\* bit of its right neighbour and the South bit of a cell equals the North
\* bit of the neighbour below it.
HasMaze == pc \in {"created", "gen", "generated", "genfailed"}

WallsSymmetric ==
    HasMaze =>
        /\ \A x \in 0..(maze.width - 2), y \in 0..(maze.height - 1) :
              WallBit(maze, x, y, MAZE_EAST) = WallBit(maze, x + 1, y, MAZE_WEST)
        /\ \A x \in 0..(maze.width - 1), y \in 0..(maze.height - 2) :
              WallBit(maze, x, y, MAZE_SOUTH) = WallBit(maze, x, y + 1, MAZE_NORTH)

WallsSymmetricWitness ==
    /\ pc = "gen"
    /\ Len(stack) > 0
    /\ \E x \in 0..(maze.width - 2), y \in 0..(maze.height - 1) :
          ~WallBit(maze, x, y, MAZE_EAST)
    /\ \E x \in 0..(maze.width - 1), y \in 0..(maze.height - 2) :
          ~WallBit(maze, x, y, MAZE_SOUTH)
    /\ \E i \in 0..(maze.width * maze.height - 1) : ~visited[i]

\* C26: whenever a maze exists, every cell of row 0 has its North bit, every
\* cell of the last row its South bit, every cell of column 0 its West bit
\* and every cell of the last column its East bit, and every mask is within
\* 0..15.
BoundaryClosed ==
    HasMaze =>
        /\ \A x \in 0..(maze.width - 1) :
              /\ WallBit(maze, x, 0, MAZE_NORTH)
              /\ WallBit(maze, x, maze.height - 1, MAZE_SOUTH)
        /\ \A y \in 0..(maze.height - 1) :
              /\ WallBit(maze, 0, y, MAZE_WEST)
              /\ WallBit(maze, maze.width - 1, y, MAZE_EAST)
        /\ \A i \in 0..(maze.width * maze.height - 1) : maze.cells[i] \in 0..MAZE_ALL

BoundaryClosedWitness ==
    /\ pc = "generated"
    /\ maze.width >= 2
    /\ maze.height >= 2
    /\ \A i \in 0..(maze.width * maze.height - 1) : maze.cells[i] # MAZE_ALL

\* C27: inside the loop of Maze_Generate 0 <= stackTop <= width*height; every
\* entry of the stack is a cell of the grid; and in the iteration about to
\* run, whatever rand() returns, the indices used on cells[] and visited[]
\* are within 0 .. width*height-1 and a push writes a slot below
\* width*height.
StackCells == { <<stack[k].x, stack[k].y>> : k \in 1..Len(stack) }

IterationInBounds(j3, j2, j1) ==
    LET it == GenerateIteration(maze, visited, stack, j3, j2, j1)
        n == maze.width * maze.height
    IN  it.nextIdx >= 0 =>
            /\ it.currIdx \in 0..(n - 1)
            /\ it.nextIdx \in 0..(n - 1)
            /\ Len(stack) < n

StackInBounds ==
    pc = "gen" =>
        /\ Len(stack) >= 0
        /\ Len(stack) <= maze.width * maze.height
        /\ StackCells \subseteq Cells(maze)
        /\ DOMAIN visited = 0..(maze.width * maze.height - 1)
        /\ Len(stack) > 0 =>
              /\ \A d \in 1..4 :
                    CellIndex(maze, stack[Len(stack)].x + DirTable[d].dx,
                              stack[Len(stack)].y + DirTable[d].dy)
                        \in -1..(maze.width * maze.height - 1)
              /\ \A j3 \in 0..3, j2 \in 0..2, j1 \in 0..1 : IterationInBounds(j3, j2, j1)

StackInBoundsWitness ==
    /\ pc = "gen"
    /\ maze.width >= 2
    /\ maze.height >= 2
    /\ Len(stack) = maze.width * maze.height

\* C28, as claimed: a Maze_GetWallRects call with maxRects > 0 writes at most
\* maxRects entries through outRects and returns a count of at most maxRects.
WallRectsWithinMax ==
    maxRects > 0 =>
        /\ Len(outRects) <= maxRects
        /\ rectCount <= maxRects

\* C29: in the frame loop, whenever the wall array exists, the circle of the
\* player and the circle of every pursuer placed touch no wall segment:
\* InitGame puts them on cell centres and the X-then-Z resolution only
\* accepts positions that collide with nothing.
OverlapsWall(x, z, r) ==
    \E i \in 1..wallCount :
        LET rect == walls.rects[i].rect
            gx == AxisGap(x, rect.x, rect.x + rect.width)
            gz == AxisGap(z, rect.y, rect.y + rect.height)
        IN  gx * gx + gz * gz <= r * r

NoEntityInWall ==
    ~walls.null =>
        /\ ~OverlapsWall(playerPos.x, playerPos.z, PLAYER_RADIUS)
        /\ \A k \in 1..Len(scaryChars) :
              scaryChars[k].radius > 0
                  => ~OverlapsWall(scaryChars[k].x, scaryChars[k].z, scaryChars[k].radius)

\* two frames of a session in which a wall has kept every pursuer, each of
\* them away from the player, where it was
NoEntityInWallWitness ==
    /\ pc = "exitcheck"
    /\ ~walls.null
    /\ wallCount > 0
    /\ gameTimer = 2
    /\ gameState = GAME_STATE_PLAYING
    /\ scaryChars = fr.charsAtUpdate
    /\ \A k \in 1..Len(scaryChars) :
          scaryChars[k].speed > 0 /\ scaryChars[k].x # playerPos.x

\* the same for the movement resolution alone, from every position clear of
\* the walls and for every displacement (SpecMove)
MoveStaysClear ==
    pc = "move_done" => ~TouchesWall(mvOut.x, mvOut.y)

\* C30: in one ParticleSystem_Update call the body of the update loop (gravity,
\* position integration, life decrement) is applied exactly once to each
\* particle that is active after the emission step, those emitted in the
\* same call included, however many removals happen during the loop.
TimesUpdated(slot) ==
    Cardinality({ k \in 1..Len(psLast.updated) : psLast.updated[k] = slot })

EachParticleUpdatedOnce ==
    psLast.called =>
        LET n == psLast.activeBefore + psLast.emitted
        IN  /\ Len(psLast.updated) = n
            /\ \A slot \in 0..(n - 1) : TimesUpdated(slot) = 1

\* a particle in the middle of the pool died, the last one was moved into
\* its slot and updated there, and a particle was emitted in the same call
EachParticleUpdatedOnceWitness ==
    /\ psLast.called
    /\ psLast.emitted >= 1
    /\ psLast.removed >= 1
    /\ ps.activeParticles >= 1
    /\ \E k \in 1..(Len(psLast.updated) - 1) : psLast.updated[k] > psLast.updated[k + 1]

====
